---------------------------- MODULE Spec2Model ----------------------------
(***************************************************************************)
(* A model of src/src/NativeLibrary/SystemMonitor.cpp (the non-Windows     *)
(* branch of every function): GetCpuUsage with its four function-local     *)
(* statics, GetNetworkStats, GetTopProcesses and GetDiskUsage.             *)
(*                                                                         *)
(* unsigned long long arithmetic is arithmetic modulo 2^64.  An unsigned    *)
(* value is held as the representative r of its residue with               *)
(* -2^63 < r < 2^63: r >= 0 is the value r, r < 0 is the value 2^64 + r    *)
(* (a difference that wrapped around).  Sums and differences of            *)
(* representatives are exact as long as they stay in that range, which     *)
(* they do for the counter values of the model.                            *)
(*                                                                         *)
(* A double is kept as the quotient (num / den) * 2^(64 * big) of the      *)
(* division that produced it: den = 0 with num = 0 is NaN, den = 0 with    *)
(* num > 0 is +inf.  The conversion of 2^64 + r, -1024 <= r < 0, to double *)
(* rounds to 2^64.                                                         *)
(***************************************************************************)
EXTENDS Integers, Sequences, FiniteSets, TLC

VARIABLES
    \* ---- the file-scope flag of line 30
    perfCountersInitialized,
    \* ---- GetCpuUsage: the function-local statics (line 55)
    lastTotalUser, lastTotalUserLow, lastTotalSys, lastTotalIdle,
    \* ---- GetCpuUsage called from one thread
    cpuRet,        \* value returned by the latest call
    cpuBranch,     \* path the latest call took: "none", "openfail", "baseline", "delta"
    cpuCur,        \* history: reading retrieved by the latest call that retrieved one
    cpuPrev,       \* history: reading retrieved by the retrieving call before that
    cpuReads,      \* history: number of readings retrieved so far, capped at MaxReads
    \* ---- GetCpuUsage called from several threads, one source line at a time
    pc,            \* per thread: "idle" or the source line it executes next
    local,         \* per thread: totalUser, totalUserLow, totalSys, totalIdle, total
    seen,          \* per thread, history: the values of the statics it read
    threadRet,     \* per thread: value returned by its latest call
    threadBranch,  \* per thread: path its latest call took
    raceReadings,  \* history: what each call retrieved, in call order (NoReading: fopen failed)
    \* ---- GetNetworkStats
    bytesReceived, \* the caller's long long that the first pointer names
    bytesSent,     \* the caller's long long that the second pointer names
    netRet,        \* value returned by the latest call (-1 before any call)
    netFile,       \* history: the lines of /proc/net/dev the latest successful call read
    netPrevTotals, \* history: what the successful call before the latest one reported
    netCalls,      \* history: number of successful calls so far, capped at MaxNetCalls
    \* ---- GetTopProcesses
    procPc,        \* "idle", "loop" (at the test of line 170) or "done" (returned)
    procDir,       \* the entries readdir hands out, in its order
    procPos,       \* number of entries readdir has handed out
    maxCount,      \* the argument
    count,         \* the local of line 168
    processIds,    \* the caller's three arrays, by index; as the caller filled
    processNames,  \*   them where the function has not written
    memoryUsages,
    \* ---- GetDiskUsage
    totalSpace,    \* the caller's long long that the second argument names
    freeSpace,     \* the caller's long long that the third argument names
    diskRet,       \* value returned by the latest call (-1 before any call)
    diskPath,      \* history: the path of the latest call
    diskBefore,    \* history: the caller's two values when the latest call began
    diskStat       \* history: what statvfs filled in for the latest call, if it succeeded

cpuStatics == <<lastTotalUser, lastTotalUserLow, lastTotalSys, lastTotalIdle>>
cpuVars    == <<cpuRet, cpuBranch, cpuCur, cpuPrev, cpuReads>>
raceVars   == <<pc, local, seen, threadRet, threadBranch, raceReadings>>
netVars    == <<bytesReceived, bytesSent, netRet, netFile, netPrevTotals, netCalls>>
procVars   == <<procPc, procDir, procPos, maxCount, count,
                processIds, processNames, memoryUsages>>
diskVars   == <<totalSpace, freeSpace, diskRet, diskPath, diskBefore, diskStat>>
vars       == <<perfCountersInitialized, cpuStatics, cpuVars, raceVars, netVars,
                procVars, diskVars>>

\* what the calls of one function leave alone
allButCpu  == <<raceVars, netVars, procVars, diskVars>>
allButRace == <<cpuVars, netVars, procVars, diskVars>>
cpuState   == <<perfCountersInitialized, cpuStatics, cpuVars, raceVars>>
allButNet  == <<cpuState, procVars, diskVars>>
allButProc == <<cpuState, netVars, diskVars>>
allButDisk == <<cpuState, netVars, procVars>>

-----------------------------------------------------------------------------
(* Bounds of the model *)

\* largest value of one /proc/stat counter in a reading
MaxTick == 1
\* cap of the history counter cpuReads
MaxReads == 3
\* number of threads calling GetCpuUsage concurrently
NumThreads == 2
\* number of calls the concurrent callers make in one run
MaxRaceCalls == 2
\* number of interface lines in one read of /proc/net/dev
MaxNetLines == 2
\* cap of the history counter netCalls
MaxNetCalls == 2
\* number of entries in one listing of /proc
MaxProcEntries == 3
\* largest maxCount passed to GetTopProcesses
MaxCountArg == 2
\* largest block count statvfs reports
MaxBlocks == 3

-----------------------------------------------------------------------------
(* unsigned long long and double *)

\* a - b on unsigned long long, as representatives
USub(a, b) == a - b

\* a + b on unsigned long long, as representatives
UAdd(a, b) == a + b

\* the conversion of an unsigned long long to double: m * 2^(64 * big)
ToDouble(r) == IF r >= 0 THEN [m |-> r, big |-> 0] ELSE [m |-> 1, big |-> 1]

\* x * 100.0 on double
Times100(x) == [m |-> 100 * x.m, big |-> x.big]

\* x / y on double
DoubleDiv(x, y) == [num |-> x.m, den |-> y.m, big |-> x.big - y.big]

\* the literal 0.0
Zero == [num |-> 0, den |-> 1, big |-> 0]

IsNaN(r)    == r.den = 0 /\ r.num = 0
IsInf(r)    == r.den = 0 /\ r.num > 0
IsFinite(r) == r.den > 0
IsZero(r)   == IsFinite(r) /\ r.num = 0
\* 0 <= r <= 100
InPercentRange(r) ==
    /\ IsFinite(r)
    /\ \/ r.big < 0
       \/ r.big = 0 /\ r.num <= 100 * r.den
       \/ r.big > 0 /\ r.num = 0

-----------------------------------------------------------------------------
(* /proc/stat *)

\* the four counters of the "cpu" line that fscanf stores (line 61)
CpuReading == [totalUser : 0..MaxTick, totalUserLow : 0..MaxTick,
               totalSys : 0..MaxTick, totalIdle : 0..MaxTick]

NoReading == [totalUser |-> -1, totalUserLow |-> -1, totalSys |-> -1, totalIdle |-> -1]

\* the statics as one reading
Baseline == [totalUser |-> lastTotalUser, totalUserLow |-> lastTotalUserLow,
             totalSys |-> lastTotalSys, totalIdle |-> lastTotalIdle]

-----------------------------------------------------------------------------
(* GetCpuUsage, lines 45-82, #else branch *)

\* lines 32-41, called at line 46; the flag is all it touches in this build
InitializePerfCounters == perfCountersInitialized' = TRUE

\* line 64: the statics are taken to hold no sample when lastTotalUser is 0
IsFirstCall(lastUser) == lastUser = 0

\* line 72
CpuTotal(s, last) ==
    UAdd(UAdd(USub(s.totalUser, last.totalUser),
              USub(s.totalUserLow, last.totalUserLow)),
         USub(s.totalSys, last.totalSys))

\* line 73: total * 100.0 is a double product, the denominator an unsigned sum
CpuPercent(s, last) ==
    LET total == CpuTotal(s, last)
    IN  DoubleDiv(Times100(ToDouble(total)),
                  ToDouble(UAdd(total, USub(s.totalIdle, last.totalIdle))))

\* StoreBaseline with the store of line 78 left out
StoreBaselineWithoutIdle(s) ==
    /\ lastTotalUser' = s.totalUser
    /\ lastTotalUserLow' = s.totalUserLow
    /\ lastTotalSys' = s.totalSys
    /\ lastTotalIdle' = lastTotalIdle

\* lines 65-68 and 75-78
StoreBaseline(s) ==
    /\ lastTotalUser' = s.totalUser
    /\ lastTotalUserLow' = s.totalUserLow
    /\ lastTotalSys' = s.totalSys
    /\ lastTotalIdle' = s.totalIdle

\* history of the readings retrieved
NoteReading(s) ==
    /\ cpuPrev' = cpuCur
    /\ cpuCur' = s
    /\ cpuReads' = IF cpuReads < MaxReads THEN cpuReads + 1 ELSE cpuReads

\* line 58: /proc/stat cannot be opened
GetCpuUsageOpenFail ==
    /\ InitializePerfCounters
    /\ cpuRet' = Zero
    /\ cpuBranch' = "openfail"
    /\ UNCHANGED <<cpuStatics, cpuCur, cpuPrev, cpuReads>>

\* lines 64-70: the baseline branch
GetCpuUsageBaseline ==
    \E s \in CpuReading :
        /\ InitializePerfCounters
        /\ IsFirstCall(lastTotalUser)
        /\ StoreBaseline(s)
        /\ cpuRet' = Zero
        /\ cpuBranch' = "baseline"
        /\ NoteReading(s)

\* lines 72-80: the delta branch
GetCpuUsageDelta ==
    \E s \in CpuReading :
        /\ InitializePerfCounters
        /\ ~IsFirstCall(lastTotalUser)
        /\ cpuRet' = CpuPercent(s, Baseline)
        /\ StoreBaseline(s)
        /\ cpuBranch' = "delta"
        /\ NoteReading(s)

InitCpu ==
    /\ perfCountersInitialized = FALSE
    /\ lastTotalUser = 0 /\ lastTotalUserLow = 0
    /\ lastTotalSys = 0 /\ lastTotalIdle = 0
    /\ cpuRet = Zero
    /\ cpuBranch = "none"
    /\ cpuCur = NoReading
    /\ cpuPrev = NoReading
    /\ cpuReads = 0

-----------------------------------------------------------------------------
(* GetCpuUsage called from several threads.  The source takes no lock, so   *)
(* the threads interleave between the accesses to the statics; each access  *)
(* to one static (an aligned 64-bit load or store) is one step.             *)

Threads == 1..NumThreads

NoLocal == [totalUser |-> 0, totalUserLow |-> 0, totalSys |-> 0, totalIdle |-> 0,
            total |-> 0]

\* lines 46 and 57-58 of thread t: fopen fails
ThreadOpenFail(t) ==
    /\ pc[t] = "idle"
    /\ InitializePerfCounters
    /\ Len(raceReadings) < MaxRaceCalls
    /\ threadRet' = [threadRet EXCEPT ![t] = Zero]
    /\ threadBranch' = [threadBranch EXCEPT ![t] = "openfail"]
    /\ raceReadings' = Append(raceReadings, NoReading)
    /\ UNCHANGED <<cpuStatics, pc, local, seen>>

\* lines 46 and 57-62 of thread t: the reading goes to the thread's locals
ThreadRead(t) ==
    \E s \in CpuReading :
        /\ pc[t] = "idle"
        /\ InitializePerfCounters
        /\ Len(raceReadings) < MaxRaceCalls
        /\ local' = [local EXCEPT ![t] = [NoLocal EXCEPT
                         !.totalUser = s.totalUser, !.totalUserLow = s.totalUserLow,
                         !.totalSys = s.totalSys, !.totalIdle = s.totalIdle]]
        /\ seen' = [seen EXCEPT ![t] = NoReading]
        /\ raceReadings' = Append(raceReadings, s)
        /\ pc' = [pc EXCEPT ![t] = "l64"]
        /\ UNCHANGED <<cpuStatics, threadRet, threadBranch>>

\* line 64 of thread t
ThreadTest(t) ==
    /\ UNCHANGED perfCountersInitialized
    /\ pc[t] = "l64"
    /\ pc' = [pc EXCEPT ![t] = IF IsFirstCall(lastTotalUser) THEN "l65" ELSE "l72u"]
    /\ UNCHANGED <<cpuStatics, local, seen, threadRet, threadBranch, raceReadings>>

\* lines 65 and 75
ThreadStoreUser(t) ==
    /\ UNCHANGED perfCountersInitialized
    /\ pc[t] \in {"l65", "l75"}
    /\ lastTotalUser' = local[t].totalUser
    /\ pc' = [pc EXCEPT ![t] = IF pc[t] = "l65" THEN "l66" ELSE "l76"]
    /\ UNCHANGED <<lastTotalUserLow, lastTotalSys, lastTotalIdle,
                   local, seen, threadRet, threadBranch, raceReadings>>

\* lines 66 and 76
ThreadStoreUserLow(t) ==
    /\ UNCHANGED perfCountersInitialized
    /\ pc[t] \in {"l66", "l76"}
    /\ lastTotalUserLow' = local[t].totalUserLow
    /\ pc' = [pc EXCEPT ![t] = IF pc[t] = "l66" THEN "l67" ELSE "l77"]
    /\ UNCHANGED <<lastTotalUser, lastTotalSys, lastTotalIdle,
                   local, seen, threadRet, threadBranch, raceReadings>>

\* lines 67 and 77
ThreadStoreSys(t) ==
    /\ UNCHANGED perfCountersInitialized
    /\ pc[t] \in {"l67", "l77"}
    /\ lastTotalSys' = local[t].totalSys
    /\ pc' = [pc EXCEPT ![t] = IF pc[t] = "l67" THEN "l68" ELSE "l78"]
    /\ UNCHANGED <<lastTotalUser, lastTotalUserLow, lastTotalIdle,
                   local, seen, threadRet, threadBranch, raceReadings>>

\* lines 68-69: the last store of the baseline branch, then return 0.0
ThreadStoreIdleBaseline(t) ==
    /\ UNCHANGED perfCountersInitialized
    /\ pc[t] = "l68"
    /\ lastTotalIdle' = local[t].totalIdle
    /\ threadRet' = [threadRet EXCEPT ![t] = Zero]
    /\ threadBranch' = [threadBranch EXCEPT ![t] = "baseline"]
    /\ pc' = [pc EXCEPT ![t] = "idle"]
    /\ UNCHANGED <<lastTotalUser, lastTotalUserLow, lastTotalSys,
                   local, seen, raceReadings>>

\* line 72, first operand: totalUser - lastTotalUser
ThreadDeltaUser(t) ==
    /\ UNCHANGED perfCountersInitialized
    /\ pc[t] = "l72u"
    /\ local' = [local EXCEPT ![t].total = USub(local[t].totalUser, lastTotalUser)]
    /\ seen' = [seen EXCEPT ![t].totalUser = lastTotalUser]
    /\ pc' = [pc EXCEPT ![t] = "l72n"]
    /\ UNCHANGED <<cpuStatics, threadRet, threadBranch, raceReadings>>

\* line 72, second operand: totalUserLow - lastTotalUserLow
ThreadDeltaUserLow(t) ==
    /\ UNCHANGED perfCountersInitialized
    /\ pc[t] = "l72n"
    /\ local' = [local EXCEPT ![t].total =
                     UAdd(@, USub(local[t].totalUserLow, lastTotalUserLow))]
    /\ seen' = [seen EXCEPT ![t].totalUserLow = lastTotalUserLow]
    /\ pc' = [pc EXCEPT ![t] = "l72s"]
    /\ UNCHANGED <<cpuStatics, threadRet, threadBranch, raceReadings>>

\* line 72, third operand: totalSys - lastTotalSys
ThreadDeltaSys(t) ==
    /\ UNCHANGED perfCountersInitialized
    /\ pc[t] = "l72s"
    /\ local' = [local EXCEPT ![t].total =
                     UAdd(@, USub(local[t].totalSys, lastTotalSys))]
    /\ seen' = [seen EXCEPT ![t].totalSys = lastTotalSys]
    /\ pc' = [pc EXCEPT ![t] = "l73"]
    /\ UNCHANGED <<cpuStatics, threadRet, threadBranch, raceReadings>>

\* line 73: percent, held in threadRet until the return of line 80
ThreadPercent(t) ==
    /\ UNCHANGED perfCountersInitialized
    /\ pc[t] = "l73"
    /\ threadRet' = [threadRet EXCEPT ![t] =
                        DoubleDiv(Times100(ToDouble(local[t].total)),
                                  ToDouble(UAdd(local[t].total,
                                                USub(local[t].totalIdle,
                                                     lastTotalIdle))))]
    /\ seen' = [seen EXCEPT ![t].totalIdle = lastTotalIdle]
    /\ pc' = [pc EXCEPT ![t] = "l75"]
    /\ UNCHANGED <<cpuStatics, local, threadBranch, raceReadings>>

\* lines 78-80: the last store of the delta branch, then return percent
ThreadStoreIdleDelta(t) ==
    /\ UNCHANGED perfCountersInitialized
    /\ pc[t] = "l78"
    /\ lastTotalIdle' = local[t].totalIdle
    /\ threadBranch' = [threadBranch EXCEPT ![t] = "delta"]
    /\ pc' = [pc EXCEPT ![t] = "idle"]
    /\ UNCHANGED <<lastTotalUser, lastTotalUserLow, lastTotalSys,
                   local, seen, threadRet, raceReadings>>

InitRace ==
    /\ pc = [t \in Threads |-> "idle"]
    /\ local = [t \in Threads |-> NoLocal]
    /\ seen = [t \in Threads |-> NoReading]
    /\ threadRet = [t \in Threads |-> Zero]
    /\ threadBranch = [t \in Threads |-> "none"]
    /\ raceReadings = << >>

-----------------------------------------------------------------------------
(* /proc/net/dev.  A line is the text up to and including the first ':' (a   *)
(* sequence of characters) followed by its numeric columns.  The kernel      *)
(* prints the interface name right-aligned in a column of six characters.    *)

Lo     == <<"l", "o">>
Eth0   == <<"e", "t", "h", "0">>
Enp0s3 == <<"e", "n", "p", "0", "s", "3">>

RECURSIVE Spaces(_)
Spaces(n) == IF n <= 0 THEN << >> ELSE <<" ">> \o Spaces(n - 1)

\* one interface line as the kernel prints it: "%6s: " then 16 counters, of which
\* the first is the received and the ninth the transmitted byte count
ProcNetDevLine(name, rx, tx) ==
    [text   |-> Spaces(6 - Len(name)) \o name \o <<":">>,
     fields |-> <<rx, 1, 0, 0, 0, 0, 0, 0, tx, 1, 0, 0, 0, 0, 0, 0>>]

\* a line cut short after four columns
ShortLine == [text |-> Spaces(2) \o Eth0 \o <<":">>, fields |-> <<5, 1, 0, 0>>]

\* the two header lines
Header1 == [text |-> <<"I", "n", "t", "e", "r", "-", "|">>, fields |-> << >>]
Header2 == [text |-> <<" ", "f", "a", "c", "e", " ", "|">>, fields |-> << >>]

NetLines ==
    {ProcNetDevLine(Lo, 999, 999), ProcNetDevLine(Eth0, 100, 50),
     ProcNetDevLine(Enp0s3, 7, 3), ShortLine}

NetBodies == UNION {[1..n -> NetLines] : n \in 0..MaxNetLines}

NetFiles == {<<Header1, Header2>> \o b : b \in NetBodies}

-----------------------------------------------------------------------------
(* GetNetworkStats, lines 273-305, #else branch *)

\* width of the %31[^:] conversion
ScanWidth == 31

\* %31[^:] : the longest prefix without ':', of at most ScanWidth characters;
\* leading white space is not skipped by a [ conversion
RECURSIVE ScanSet(_, _)
ScanSet(text, room) ==
    IF text = << >> \/ room = 0 \/ Head(text) = ":"
    THEN << >>
    ELSE <<Head(text)>> \o ScanSet(Tail(text), room - 1)

\* line 295: sscanf(line, "%31[^:]: %lld %*d %*d %*d %*d %*d %*d %*d %lld", ...);
\* n is the number of conversions stored
Sscanf(line) ==
    LET interface == ScanSet(line.text, ScanWidth)
        colon     == Len(interface) + 1
    IN  IF interface = << >>
        THEN [n |-> 0, interface |-> << >>, rx_bytes |-> 0, tx_bytes |-> 0]
        ELSE IF colon > Len(line.text) \/ line.text[colon] # ":" \/ Len(line.fields) < 1
        THEN [n |-> 1, interface |-> interface, rx_bytes |-> 0, tx_bytes |-> 0]
        ELSE IF Len(line.fields) < 9
        THEN [n |-> 2, interface |-> interface, rx_bytes |-> line.fields[1],
              tx_bytes |-> 0]
        ELSE [n |-> 3, interface |-> interface, rx_bytes |-> line.fields[1],
              tx_bytes |-> line.fields[9]]

\* line 296: strcmp(interface, "lo") != 0
NotLoopback(interface) == interface # Lo

\* lines 292-301: the loop over the remaining lines, with the two accumulators
RECURSIVE Accumulate(_, _, _)
Accumulate(lines, received, sent) ==
    IF lines = << >>
    THEN [received |-> received, sent |-> sent]
    ELSE LET r == Sscanf(Head(lines))
         IN  IF r.n = 3 /\ NotLoopback(r.interface)
             THEN Accumulate(Tail(lines), received + r.rx_bytes, sent + r.tx_bytes)
             ELSE Accumulate(Tail(lines), received, sent)

\* lines 289-290: each fgets drops one line, when there is one
SkipLine(lines) == IF lines = << >> THEN << >> ELSE Tail(lines)

\* lines 285-301 for the file f
NetworkTotals(f) == Accumulate(SkipLine(SkipLine(f)), 0, 0)

\* lines 281-282: /proc/net/dev cannot be opened
GetNetworkStatsOpenFail ==
    /\ netRet' = 0
    /\ UNCHANGED <<bytesReceived, bytesSent, netFile, netPrevTotals, netCalls>>

\* GetNetworkStats with the resets of lines 285-286 left out
GetNetworkStatsWithoutReset ==
    \E f \in NetFiles :
        LET t == Accumulate(SkipLine(SkipLine(f)), bytesReceived, bytesSent)
        IN  /\ bytesReceived' = t.received
            /\ bytesSent' = t.sent
            /\ netRet' = 1
            /\ netFile' = f
            /\ netPrevTotals' = IF netCalls = 0 THEN netPrevTotals
                                ELSE [received |-> bytesReceived, sent |-> bytesSent]
            /\ netCalls' = IF netCalls < MaxNetCalls THEN netCalls + 1 ELSE netCalls

\* lines 281-303
GetNetworkStats ==
    \E f \in NetFiles :
        LET t == NetworkTotals(f)
        IN  /\ bytesReceived' = t.received
            /\ bytesSent' = t.sent
            /\ netRet' = 1
            /\ netFile' = f
            /\ netPrevTotals' = IF netCalls = 0 THEN netPrevTotals
                                ELSE [received |-> bytesReceived, sent |-> bytesSent]
            /\ netCalls' = IF netCalls < MaxNetCalls THEN netCalls + 1 ELSE netCalls

NoTotals == [received |-> -1, sent |-> -1]

\* the caller's two variables hold what the caller left in them
InitNet ==
    /\ bytesReceived = 42
    /\ bytesSent = 42
    /\ netRet = -1
    /\ netFile = << >>
    /\ netPrevTotals = NoTotals
    /\ netCalls = 0

-----------------------------------------------------------------------------
(* GetTopProcesses, lines 134-180, #else branch *)

Digits == <<"0", "1", "2", "3", "4", "5", "6", "7", "8", "9">>

IsDigit(c) == \E d \in 1..10 : Digits[d] = c

DigitValue(c) == (CHOOSE d \in 1..10 : Digits[d] = c) - 1

\* strspn(name, "0123456789") == strlen(name)
AllDigits(name) == \A i \in 1..Len(name) : IsDigit(name[i])

\* atoi: the value of the leading digits
RECURSIVE AtoiFrom(_, _)
AtoiFrom(name, acc) ==
    IF name = << >> \/ ~IsDigit(Head(name)) THEN acc
    ELSE AtoiFrom(Tail(name), 10 * acc + DigitValue(Head(name)))

atoi(name) == AtoiFrom(name, 0)

\* the directory entries of /proc the model lists
ProcEntries ==
    {[d_name |-> <<"7">>, d_type |-> "DT_DIR"],
     [d_name |-> <<"2", "3">>, d_type |-> "DT_DIR"],
     [d_name |-> <<"1">>, d_type |-> "DT_DIR"],
     [d_name |-> <<"s", "y", "s">>, d_type |-> "DT_DIR"],
     [d_name |-> <<"9">>, d_type |-> "DT_REG"]}

ProcListings == UNION {[1..n -> ProcEntries] : n \in 0..MaxProcEntries}

\* line 171
IsProcess(entry) == entry.d_type = "DT_DIR" /\ AllDigits(entry.d_name)

\* RoomLeft with <= for <
RoomLeftOffByOne(c, m) == c <= m

\* line 170, second operand
RoomLeft(c, m) == c < m

\* what the caller put in the slots of its arrays before the call: a number no
\* pid or memory figure equals, and the empty name
UntouchedNumber == 0 - 1
UntouchedName == << >>

\* the indices of the caller's arrays that the model watches: the maxCount slots
\* the caller provides and the one behind them
Slots == 0..MaxCountArg

FreshNumbers == [i \in Slots |-> UntouchedNumber]
FreshNames == [i \in Slots |-> UntouchedName]

\* line 166: opendir fails
GetTopProcessesOpenFail ==
    /\ procPc \in {"idle", "done"}
    /\ \E m \in 0..MaxCountArg : maxCount' = m
    /\ procDir' = << >>
    /\ procPos' = 0
    /\ count' = 0
    /\ processIds' = FreshNumbers
    /\ processNames' = FreshNames
    /\ memoryUsages' = FreshNumbers
    /\ procPc' = "done"

\* lines 165-169: entry with fresh arrays from the caller
GetTopProcessesEnter ==
    /\ procPc \in {"idle", "done"}
    /\ \E m \in 0..MaxCountArg : maxCount' = m
    /\ \E d \in ProcListings : procDir' = d
    /\ procPos' = 0
    /\ count' = 0
    /\ processIds' = FreshNumbers
    /\ processNames' = FreshNames
    /\ memoryUsages' = FreshNumbers
    /\ procPc' = "loop"

\* lines 170-177: readdir hands out an entry, there is room, the body runs
GetTopProcessesStep ==
    /\ procPc = "loop"
    /\ procPos < Len(procDir)
    /\ RoomLeft(count, maxCount)
    /\ procPos' = procPos + 1
    /\ LET entry == procDir[procPos + 1]
       IN  IF IsProcess(entry)
           THEN /\ processIds' = [processIds EXCEPT ![count] = atoi(entry.d_name)]
                /\ processNames' = [processNames EXCEPT ![count] = entry.d_name]
                /\ memoryUsages' = [memoryUsages EXCEPT ![count] = 0]
                /\ count' = count + 1
           ELSE UNCHANGED <<processIds, processNames, memoryUsages, count>>
    /\ UNCHANGED <<procPc, procDir, maxCount>>

\* lines 170 and 178: readdir returns NULL, or it hands out an entry and there is
\* no room; closedir and return
GetTopProcessesLeave ==
    /\ procPc = "loop"
    /\ procPos = Len(procDir) \/ ~RoomLeft(count, maxCount)
    /\ procPos' = IF procPos < Len(procDir) THEN procPos + 1 ELSE procPos
    /\ procPc' = "done"
    /\ UNCHANGED <<procDir, maxCount, count, processIds, processNames, memoryUsages>>

InitProc ==
    /\ procPc = "idle"
    /\ procDir = << >>
    /\ procPos = 0
    /\ maxCount = 0
    /\ count = 0
    /\ processIds = FreshNumbers
    /\ processNames = FreshNames
    /\ memoryUsages = FreshNumbers

-----------------------------------------------------------------------------
(* GetDiskUsage, lines 182-200, #else branch *)

\* a * b on unsigned long, as representatives; the assignment to long long
\* keeps the representative
UMul(a, b) == a * b

DiskPaths == {"/", "/nonexistent/path"}

\* the paths statvfs resolves
Resolvable == {"/"}

StatVfs == {st \in [f_blocks : 0..MaxBlocks, f_bavail : 0..MaxBlocks, f_frsize : {1, 4}] :
                st.f_bavail <= st.f_blocks}

NoStat == [f_blocks |-> -1, f_bavail |-> -1, f_frsize |-> -1]

\* line 193
StatvfsSucceeds(path) == path \in Resolvable

\* GetDiskUsageFail with the outputs zeroed
GetDiskUsageFailZeroing ==
    \E path \in DiskPaths :
        /\ ~(path \in Resolvable)
        /\ diskRet' = 0
        /\ diskPath' = path
        /\ diskBefore' = [total |-> totalSpace, free |-> freeSpace]
        /\ diskStat' = [f_blocks |-> -1, f_bavail |-> -1, f_frsize |-> -1]
        /\ totalSpace' = 0
        /\ freeSpace' = 0

\* lines 193 and 198: statvfs fails
GetDiskUsageFail ==
    \E path \in DiskPaths :
        /\ ~StatvfsSucceeds(path)
        /\ diskRet' = 0
        /\ diskPath' = path
        /\ diskBefore' = [total |-> totalSpace, free |-> freeSpace]
        /\ diskStat' = NoStat
        /\ UNCHANGED <<totalSpace, freeSpace>>

\* lines 193-196
GetDiskUsageOk ==
    \E path \in DiskPaths, st \in StatVfs :
        /\ StatvfsSucceeds(path)
        /\ totalSpace' = UMul(st.f_blocks, st.f_frsize)
        /\ freeSpace' = UMul(st.f_bavail, st.f_frsize)
        /\ diskRet' = 1
        /\ diskPath' = path
        /\ diskBefore' = [total |-> totalSpace, free |-> freeSpace]
        /\ diskStat' = st

\* the caller's two variables hold what the caller left in them
InitDisk ==
    /\ totalSpace = 42
    /\ freeSpace = 42
    /\ diskRet = -1
    /\ diskPath = ""
    /\ diskBefore = [total |-> 42, free |-> 42]
    /\ diskStat = NoStat

-----------------------------------------------------------------------------
(* Specifications *)

Init == InitCpu /\ InitRace /\ InitNet /\ InitProc /\ InitDisk

\* GetCpuUsage called from one thread
Next ==
    \/ GetCpuUsageOpenFail /\ UNCHANGED allButCpu
    \/ GetCpuUsageBaseline /\ UNCHANGED allButCpu
    \/ GetCpuUsageDelta /\ UNCHANGED allButCpu

Spec == Init /\ [][Next]_vars

\* GetCpuUsage called from NumThreads threads
NextRace ==
    \/ \E t \in Threads : ThreadOpenFail(t) /\ UNCHANGED allButRace
    \/ \E t \in Threads : ThreadRead(t) /\ UNCHANGED allButRace
    \/ \E t \in Threads : ThreadTest(t) /\ UNCHANGED allButRace
    \/ \E t \in Threads : ThreadStoreUser(t) /\ UNCHANGED allButRace
    \/ \E t \in Threads : ThreadStoreUserLow(t) /\ UNCHANGED allButRace
    \/ \E t \in Threads : ThreadStoreSys(t) /\ UNCHANGED allButRace
    \/ \E t \in Threads : ThreadStoreIdleBaseline(t) /\ UNCHANGED allButRace
    \/ \E t \in Threads : ThreadDeltaUser(t) /\ UNCHANGED allButRace
    \/ \E t \in Threads : ThreadDeltaUserLow(t) /\ UNCHANGED allButRace
    \/ \E t \in Threads : ThreadDeltaSys(t) /\ UNCHANGED allButRace
    \/ \E t \in Threads : ThreadPercent(t) /\ UNCHANGED allButRace
    \/ \E t \in Threads : ThreadStoreIdleDelta(t) /\ UNCHANGED allButRace

SpecRace == Init /\ [][NextRace]_vars

\* GetNetworkStats
NextNet ==
    \/ GetNetworkStatsOpenFail /\ UNCHANGED allButNet
    \/ GetNetworkStats /\ UNCHANGED allButNet

SpecNet == Init /\ [][NextNet]_vars

\* GetTopProcesses
NextProc ==
    \/ GetTopProcessesOpenFail /\ UNCHANGED allButProc
    \/ GetTopProcessesEnter /\ UNCHANGED allButProc
    \/ GetTopProcessesStep /\ UNCHANGED allButProc
    \/ GetTopProcessesLeave /\ UNCHANGED allButProc

SpecProc == Init /\ [][NextProc]_vars

\* GetDiskUsage
NextDisk ==
    \/ GetDiskUsageFail /\ UNCHANGED allButDisk
    \/ GetDiskUsageOk /\ UNCHANGED allButDisk

SpecDisk == Init /\ [][NextDisk]_vars

-----------------------------------------------------------------------------
(* Properties of GetCpuUsage called from one thread (Spec) *)

\* the latest call retrieved a reading and an earlier call had retrieved one
SecondOfAPair == cpuBranch \in {"baseline", "delta"} /\ cpuPrev # NoReading

NonDecreasing(a, b) ==
    /\ a.totalUser <= b.totalUser /\ a.totalUserLow <= b.totalUserLow
    /\ a.totalSys <= b.totalSys /\ a.totalIdle <= b.totalIdle

\* busy and total of the specified algorithm, on the integers
BusyTicks(a, b) ==
    (b.totalUser - a.totalUser) + (b.totalUserLow - a.totalUserLow)
        + (b.totalSys - a.totalSys)
TotalTicks(a, b) == BusyTicks(a, b) + (b.totalIdle - a.totalIdle)

\* C1: when the second of two consecutive readings equals the first (all four
\* deltas are 0), the second call returns exactly 0, never NaN.
C1_ZeroWhenNoTickElapsed ==
    (SecondOfAPair /\ cpuCur = cpuPrev) => IsZero(cpuRet)

\* C2: the first call that retrieves a reading returns exactly 0 and stores that
\* reading as the baseline, and the baseline branch with its zero result is taken
\* only when no earlier sample exists.
C2_BaselineBranchOnlyWithoutPriorSample ==
    /\ cpuReads = 1 => IsZero(cpuRet) /\ Baseline = cpuCur
    /\ cpuBranch = "baseline" => cpuPrev = NoReading

\* C3: when a counter decreases between two consecutive readings the returned
\* percentage still lies in [0,100].
C3_DecreaseStaysInRange ==
    (SecondOfAPair /\ ~NonDecreasing(cpuPrev, cpuCur)) => InPercentRange(cpuRet)

\* C6: for two consecutive readings with non-decreasing components the second call
\* returns a value in [0,100] that equals 100*busy/total.
C6_PercentOfNonDecreasingPair ==
    (SecondOfAPair /\ NonDecreasing(cpuPrev, cpuCur)) =>
        /\ InPercentRange(cpuRet)
        /\ TotalTicks(cpuPrev, cpuCur) > 0 =>
               /\ cpuRet.big = 0
               /\ cpuRet.num * TotalTicks(cpuPrev, cpuCur)
                      = 100 * BusyTicks(cpuPrev, cpuCur) * cpuRet.den

-----------------------------------------------------------------------------
(* Properties of GetCpuUsage called from several threads (SpecRace) *)

Quiescent == \A t \in Threads : pc[t] = "idle"

Retrieved == {raceReadings[i] : i \in 1..Len(raceReadings)} \ {NoReading}

\* C5: concurrent calls serialize on the statics: between calls the four statics
\* hold one single reading (or their initial zeros), and the four values a call
\* computed its percentage against are one single reading stored by an earlier call.
C5_CallsSerializeOnBaseline ==
    /\ Quiescent => (Baseline \in Retrieved \/ Len(raceReadings) = 0
                        \/ (Retrieved = {} /\ lastTotalUser = 0))
    /\ \A t \in Threads :
           (pc[t] = "idle" /\ threadBranch[t] = "delta") => seen[t] \in Retrieved

-----------------------------------------------------------------------------
(* Properties of GetNetworkStats (SpecNet) *)

\* the name the kernel printed: the scanned text without its leading spaces
RECURSIVE StripSpaces(_)
StripSpaces(text) ==
    IF text # << >> /\ Head(text) = " " THEN StripSpaces(Tail(text)) ELSE text

\* the complete interface lines of a read, by position
InterfaceLines(f) == {i \in 3..Len(f) : Sscanf(f[i]).n = 3}

RECURSIVE SumOver(_, _, _)
SumOver(f, S, column) ==
    IF S = {} THEN 0
    ELSE LET i == CHOOSE j \in S : TRUE
         IN  f[i].fields[column] + SumOver(f, S \ {i}, column)

\* the lines that line 296 lets through
PassedLines(f) == {i \in InterfaceLines(f) : Sscanf(f[i]).interface # Lo}

\* the lines of the interfaces not named "lo"
NonLoopbackLines(f) ==
    {i \in InterfaceLines(f) : StripSpaces(Sscanf(f[i]).interface) # Lo}

Contains(f, line) == \E i \in 3..Len(f) : f[i] = line

C7_LoopbackExcluded ==
    (/\ netCalls >= 1 /\ netRet = 1
     /\ Contains(netFile, ProcNetDevLine(Eth0, 100, 50))
     /\ Contains(netFile, ProcNetDevLine(Lo, 999, 999))) =>
        /\ bytesReceived = SumOver(netFile, NonLoopbackLines(netFile), 1)
        /\ bytesSent = SumOver(netFile, NonLoopbackLines(netFile), 9)
        /\ bytesReceived = 100 /\ bytesSent = 50

-----------------------------------------------------------------------------
(* Properties of GetTopProcesses (SpecProc) *)

Min(a, b) == IF a <= b THEN a ELSE b

\* the process entries of a listing, in the order of the listing
Processes(d) == SelectSeq(d, IsProcess)

\* the first m of them
FirstProcesses(d, m) == SubSeq(Processes(d), 1, Min(m, Len(Processes(d))))

WrittenSlots(array, fresh) == {i \in Slots : array[i] # fresh[i]}

\* C9: at most maxCount records are written, none when maxCount is 0 and none at an
\* index >= maxCount; on return the records are the first process entries in the
\* order readdir handed them out, unsorted.
C9_AtMostMaxCountInEnumerationOrder ==
    /\ count <= maxCount
    /\ WrittenSlots(processIds, FreshNumbers) = 0..(count - 1)
    /\ WrittenSlots(processNames, FreshNames) = 0..(count - 1)
    /\ WrittenSlots(memoryUsages, FreshNumbers) = 0..(count - 1)
    /\ \A i \in Slots : i >= maxCount =>
           /\ processIds[i] = UntouchedNumber
           /\ processNames[i] = UntouchedName
           /\ memoryUsages[i] = UntouchedNumber
    /\ maxCount = 0 => WrittenSlots(processIds, FreshNumbers) = {}
    /\ procPc = "done" =>
           LET first == FirstProcesses(procDir, maxCount)
           IN  /\ count = Len(first)
               /\ \A i \in 1..Len(first) :
                      /\ processIds[i - 1] = atoi(first[i].d_name)
                      /\ processNames[i - 1] = first[i].d_name
                      /\ memoryUsages[i - 1] = 0

\* a call returned with its arrays full, with more processes listed than it had
\* room for, and with the larger pid in front of the smaller
C9_Witness ==
    /\ procPc = "done"
    /\ maxCount >= 2 /\ count = maxCount
    /\ Len(Processes(procDir)) > maxCount
    /\ processIds[0] > processIds[1]

-----------------------------------------------------------------------------
(* Properties of GetDiskUsage (SpecDisk) *)

\* C10: for a path statvfs does not resolve the call returns 0 and the caller's
\* two values are as they were when the call began; it returns 1 only with both
\* values written from the one statvfs result.
C10_FailureLeavesOutputsUntouched ==
    /\ (diskRet # -1 /\ ~StatvfsSucceeds(diskPath)) =>
           /\ diskRet = 0
           /\ totalSpace = diskBefore.total
           /\ freeSpace = diskBefore.free
    /\ diskRet = 1 =>
           /\ StatvfsSucceeds(diskPath)
           /\ diskStat # NoStat
           /\ totalSpace = diskStat.f_blocks * diskStat.f_frsize
           /\ freeSpace = diskStat.f_bavail * diskStat.f_frsize

\* a failed call after a successful one: the values of the earlier call remain
C10_Witness ==
    /\ diskRet = 0
    /\ diskPath = "/nonexistent/path"
    /\ totalSpace = diskBefore.total /\ freeSpace = diskBefore.free
    /\ totalSpace \notin {0, 42}
    /\ freeSpace \notin {0, 42}

=============================================================================
